---------------------------- MODULE Spec2Model ----------------------------
(***************************************************************************)
(* Model of the Python project scanner of flyctl (scanner/python.go):      *)
(* the dependency canonicalizer parsePyDep, the four manifest detectors    *)
(* (configPoetry, configPyProject, configPipfile, configRequirements),     *)
(* the classifier intoSource, the entrypoint locator findEntrypoint, the   *)
(* version resolver extractPythonVersion and the orchestrator              *)
(* configurePython.                                                        *)
(*                                                                         *)
(* Go strings are modelled as sequences of one-character strings, so that  *)
(* splitting, trimming and matching are computed character by character.   *)
(***************************************************************************)
EXTENDS Integers, Sequences, FiniteSets, TLC

VARIABLES
    dep,        \* parsePyDep: the raw token handed to the canonicalizer
    out,        \* parsePyDep: the results of its successive applications
    files,      \* the names of the files that exist in the source directory
    docs,       \* what has been read so far of each file and of the tree
    probes,     \* what the interpreter probes have answered so far
    pc,         \* configurePython: the statement it is at
    src,        \* configurePython: the *SourceInfo it returns
    err,        \* configurePython: the error it returns ("" is nil)
    log,        \* one record per detector that ran: its StackConfig and result
    reads,      \* the manifest files whose content was read, with the reader
    resolved    \* one record per call of extractPythonVersion

scanVars == <<files, docs, probes, pc, src, err, log, reads, resolved>>

vars == <<dep, out, files, docs, probes, pc, src, err, log, reads, resolved>>

----------------------------------------------------------------------------
(* Bounds of the model *)

\* longest enumerated raw dependency token
MaxTokenLen == 4

\* most entries of a dependency list or table of a manifest
MaxDeps == 2

\* most files of the source directory among those the scanner looks for
MaxFiles == 3

\* most files the tree walk of findEntrypoint visits
MaxWalk == 2

----------------------------------------------------------------------------
(* Go string primitives *)

UpperCase == <<"A","B","C","D","E","F","G","H","I","J","K","L","M",
               "N","O","P","Q","R","S","T","U","V","W","X","Y","Z">>

LowerCase == <<"a","b","c","d","e","f","g","h","i","j","k","l","m",
               "n","o","p","q","r","s","t","u","v","w","x","y","z">>

\* unicode.ToLower on one character
ToLowerChar(c) ==
    IF \E i \in DOMAIN UpperCase : UpperCase[i] = c
    THEN LowerCase[CHOOSE i \in DOMAIN UpperCase : UpperCase[i] = c]
    ELSE c

\* strings.ToLower
ToLower(s) == [i \in 1..Len(s) |-> ToLowerChar(s[i])]

\* strings.HasPrefix
HasPrefix(s, p) == Len(p) <= Len(s) /\ SubSeq(s, 1, Len(p)) = p

\* strings.Index: the 0-based offset of the first occurrence of sep in s, -1 if none
Index(s, sep) ==
    LET hits == {i \in 0..(Len(s) - Len(sep)) : SubSeq(s, i + 1, i + Len(sep)) = sep}
    IN  IF hits = {} THEN -1 ELSE CHOOSE i \in hits : \A j \in hits : i <= j

\* strings.LastIndex: the offset of the last occurrence
LastIndex(s, sep) ==
    LET hits == {i \in 0..(Len(s) - Len(sep)) : SubSeq(s, i + 1, i + Len(sep)) = sep}
    IN  IF hits = {} THEN -1 ELSE CHOOSE i \in hits : \A j \in hits : i >= j

\* strings.Contains
Contains(s, sep) == Index(s, sep) >= 0

\* a variant of SplitFirst that cuts at the last occurrence of sep
SplitFirstAtLast(s, sep) ==
    LET m == LastIndex(s, sep) IN IF m < 0 THEN s ELSE SubSeq(s, 1, m)

\* strings.Split(s, sep)[0] for a non-empty sep: s up to the first sep, or all of s
SplitFirst(s, sep) ==
    LET m == Index(s, sep) IN IF m < 0 THEN s ELSE SubSeq(s, 1, m)

----------------------------------------------------------------------------
(* parsePyDep *)

\* the delimiters of parsePyDep, in the order of its statements
Delimiters == << <<";">>, <<" ">>, <<"[">>, <<"=", "=">>, <<">">>, <<"<">>, <<"~", "=">> >>

\* a variant of parsePyDep that strips "~=" before "=="
parsePyDepTildeFirst(d) ==
    LET s0 == ToLower(d)
        s1 == SplitFirst(s0, <<";">>)
        s2 == SplitFirst(s1, <<" ">>)
        s3 == SplitFirst(s2, <<"[">>)
        s4 == SplitFirst(s3, <<"~", "=">>)
        s5 == SplitFirst(s4, <<"=", "=">>)
        s6 == SplitFirst(s5, <<">">>)
        s7 == SplitFirst(s6, <<"<">>)
    IN  s7

parsePyDep(d) ==
    LET s0 == ToLower(d)
        s1 == SplitFirst(s0, <<";">>)
        s2 == SplitFirst(s1, <<" ">>)
        s3 == SplitFirst(s2, <<"[">>)
        s4 == SplitFirst(s3, <<"=", "=">>)
        s5 == SplitFirst(s4, <<">">>)
        s6 == SplitFirst(s5, <<"<">>)
        s7 == SplitFirst(s6, <<"~", "=">>)
    IN  s7

----------------------------------------------------------------------------
(* Names, versions and banners that occur in the modelled source trees *)

\* PyApp constants and supportedApps
FastAPI   == <<"f","a","s","t","a","p","i">>
Flask     == <<"f","l","a","s","k">>
Streamlit == <<"s","t","r","e","a","m","l","i","t">>

supportedApps == <<FastAPI, Flask, Streamlit>>

Boto3       == <<"b","o","t","o","3">>
Boto        == <<"b","o","t","o">>
PythonKey   == <<"p","y","t","h","o","n">>
FlaskUpper  == <<"F","l","a","s","k">>
FlaskPinned == <<"f","l","a","s","k","=","=","2">>
BlankLine   == <<>>

Digits  == {"0","1","2","3","4","5","6","7","8","9"}
Letters == {UpperCase[i] : i \in DOMAIN UpperCase} \cup {LowerCase[i] : i \in DOMAIN LowerCase}

\* strings.TrimPrefix
TrimPrefix(s, p) == IF HasPrefix(s, p) THEN SubSeq(s, Len(p) + 1, Len(s)) ELSE s

\* strings.TrimFunc with the predicate of configPyProject: every leading and
\* trailing character that is neither a digit nor "." is dropped
TrimNonVersion(s) ==
    LET keep == {i \in 1..Len(s) : s[i] \in Digits \/ s[i] = "."}
    IN  IF keep = {} THEN <<>>
        ELSE SubSeq(s, CHOOSE i \in keep : \A j \in keep : i <= j,
                       CHOOSE i \in keep : \A j \in keep : i >= j)

\* the number of consecutive characters of s from position i on that are in set
RECURSIVE Run(_, _, _)
Run(s, i, set) == IF i <= Len(s) /\ s[i] \in set THEN 1 + Run(s, i + 1, set) ELSE 0

PythonSpace == <<"P","y","t","h","o","n"," ">>

\* one attempt of the pattern
\*   Python ([0-9]+\.[0-9]+\.[0-9]+(?:[a-zA-Z]+[0-9]+)?)
\* at position i of s: the capture group as <<capture>>, or <<>> when it fails
MatchVersionAt(s, i) ==
    LET a  == i + Len(PythonSpace)
        d1 == Run(s, a, Digits)
        b  == a + d1 + 1
        d2 == Run(s, b, Digits)
        c  == b + d2 + 1
        d3 == Run(s, c, Digits)
        e  == c + d3
        l  == Run(s, e, Letters)
        d4 == Run(s, e + l, Digits)
        last == IF l >= 1 /\ d4 >= 1 THEN e + l + d4 - 1 ELSE e - 1
    IN  IF /\ a - 1 <= Len(s)
           /\ SubSeq(s, i, a - 1) = PythonSpace
           /\ d1 >= 1 /\ Run(s, a + d1, {"."}) >= 1
           /\ d2 >= 1 /\ Run(s, b + d2, {"."}) >= 1
           /\ d3 >= 1
        THEN <<SubSeq(s, a, last)>>
        ELSE <<>>

\* re.FindStringSubmatch: the capture of the leftmost match, <<>> when none
FindVersion(s) ==
    LET hits == {i \in 1..Len(s) : MatchVersionAt(s, i) # <<>>}
    IN  IF hits = {} THEN <<>>
        ELSE MatchVersionAt(s, CHOOSE i \in hits : \A j \in hits : i <= j)

\* nonNumericRegex.MatchString: some character is neither a digit nor "."
HasNonNumeric(v) == \E i \in 1..Len(v) : v[i] \notin Digits /\ v[i] # "."

\* the fallback banner of extractPythonVersion
FallbackBanner == <<"P","y","t","h","o","n"," ","3",".","1","2",".","0">>

Banner3112   == <<"P","y","t","h","o","n"," ","3",".","1","1",".","2","\n">>
Banner3120b4 == <<"P","y","t","h","o","n"," ","3",".","1","2",".","0","b","4">>
BannerOther  == <<"p","y","e","n","v",":"," ","P","y","t","h","o","n"," ","3",".","x">>

Banners == {Banner3112, Banner3120b4, BannerOther}

Version39      == <<"3",".","9">>
CaretVersion39 == <<"^","3",".","9">>
AtLeast310     == <<">","=","3",".","1","0">>

----------------------------------------------------------------------------
(* The source tree and the interpreters, as far as a run has looked at them *)

ScannedFiles == {"poetry.lock", "pyproject.toml", "Pipfile", "Pipfile.lock",
                 "requirements.txt", "requirements.in", "environment.yml",
                 "setup.py", "setup.cfg"}

\* a file, or the tree, that no statement has read yet
Unknown == [state |-> "unread"]

\* an interpreter that no statement has run yet
NotRun == [state |-> "notrun"]

Pick(known, domain) == IF known = Unknown THEN domain ELSE {known}

PickProbe(known, domain) == IF known = NotRun THEN domain ELSE {known}

\* the sequences that list the elements of S once each (the order in which
\* Go ranges over a map is not fixed)
Orders(S) ==
    {o \in [1..Cardinality(S) -> S] : \A i, j \in 1..Cardinality(S) : o[i] = o[j] => i = j}

Lists(S, n) == UNION {[1..k -> S] : k \in 0..n}

SmallSubsets(S, n) == {T \in SUBSET S : Cardinality(T) <= n}

\* PyProjectToml.Tool.Poetry.Dependencies: nil, or the keys beside "python" and
\* what the "python" entry holds
PoetryKeys == {Flask, Streamlit}

PythonEntries == {[kind |-> "missing"], [kind |-> "table"],
                  [kind |-> "string", s |-> CaretVersion39]}

PoetrySections ==
    {[isNil |-> TRUE]} \cup
    {[isNil |-> FALSE, keys |-> k, python |-> e] :
        k \in SmallSubsets(PoetryKeys, MaxDeps), e \in PythonEntries}

\* PyProjectToml.Project.Dependencies (nil, or a list) and RequiresPython
ProjectTokens == {FastAPI, Streamlit}

ProjectSections ==
    {[isNil |-> TRUE, requires |-> r] : r \in {<<>>, AtLeast310}} \cup
    {[isNil |-> FALSE, list |-> l, requires |-> r] :
        l \in Lists(ProjectTokens, MaxDeps), r \in {<<>>, AtLeast310}}

\* pyproject.toml as configPoetry finds it: the tables it does not look at
\* stay unread
PoetryViews(known) ==
    IF known = Unknown
    THEN {[state |-> "unreadable"], [state |-> "badtoml"]} \cup
         {[state |-> "ok", poetry |-> a, project |-> Unknown] : a \in PoetrySections}
    ELSE IF known.state = "ok" /\ known.poetry = Unknown
    THEN {[known EXCEPT !.poetry = a] : a \in PoetrySections}
    ELSE {known}

\* pyproject.toml as configPyProject finds it
ProjectViews(known) ==
    IF known = Unknown
    THEN {[state |-> "unreadable"], [state |-> "badtoml"]} \cup
         {[state |-> "ok", poetry |-> Unknown, project |-> b] : b \in ProjectSections}
    ELSE IF known.state = "ok" /\ known.project = Unknown
    THEN {[known EXCEPT !.project = b] : b \in ProjectSections}
    ELSE {known}

\* Pipfile.Packages: nil, or its keys
PipfileKeys == {Flask, FlaskUpper, Boto3}

PipfileDocs ==
    {[state |-> "unreadable"], [state |-> "badtoml"], [state |-> "ok", isNil |-> TRUE]} \cup
    {[state |-> "ok", isNil |-> FALSE, keys |-> k] : k \in SmallSubsets(PipfileKeys, MaxDeps)}

\* PipfileLock.Meta.Requires.PythonVersion, when Pipfile.lock is JSON
LockDocs ==
    {[state |-> "badjson"],
     [state |-> "ok", python_version |-> <<>>],
     [state |-> "ok", python_version |-> Version39]}

\* the lines of a requirements file
RequirementTokens == {Flask, FlaskPinned, BlankLine}

RequirementDocs ==
    {[state |-> "unreadable"]} \cup
    {[state |-> "ok", lines |-> l] : l \in Lists(RequirementTokens, MaxDeps)}

\* cmd.CombinedOutput of "python3 --version" and of "python --version"
ProbeOutcomes == {[state |-> "fail"]} \cup {[state |-> "ok", out |-> b] : b \in Banners}

ImportStreamlit == <<"i","m","p","o","r","t"," ","s","t","r","e","a","m","l","i","t"," ","a","s"," ","s","t">>
FromStreamlit   == <<"f","r","o","m"," ","s","t","r","e","a","m","l","i","t"," ","i","m","p","o","r","t"," ","w","r","i","t","e">>
ImportOs        == <<"i","m","p","o","r","t"," ","o","s">>
MentionsOnly    == <<"#"," ","r","u","n"," ","w","i","t","h"," ","s","t","r","e","a","m","l","i","t">>

\* the files a walk of the tree may visit, in lexical order of their paths
\* (filepath.Walk visits the entries of a directory in lexical order)
WalkFiles ==
    <<[path |-> <<".","v","e","n","v","/","l","i","b","/","s","t",".","p","y">>, openable |-> TRUE, lines |-> <<ImportStreamlit>>],
      [path |-> <<"a","p","p",".","p","y">>, openable |-> TRUE, lines |-> <<ImportOs, ImportStreamlit>>],
      [path |-> <<"l","o","c","k","e","d",".","p","y">>, openable |-> FALSE, lines |-> <<>>],
      [path |-> <<"n","o","t","e","s",".","t","x","t">>, openable |-> TRUE, lines |-> <<ImportStreamlit>>],
      [path |-> <<"p","a","g","e","s","/","m","a","i","n",".","p","y">>, openable |-> TRUE, lines |-> <<FromStreamlit>>],
      [path |-> <<"u","t","i","l",".","p","y">>, openable |-> TRUE, lines |-> <<ImportOs, MentionsOnly>>]>>

\* the elements of the sequence s at the positions I, in the order of s
Subsequence(s, I) ==
    [k \in 1..Cardinality(I) |->
        s[CHOOSE i \in I : Cardinality({j \in I : j < i}) = k - 1]]

\* the walks: the files visited, in the order filepath.Walk visits them
Trees ==
    {[state |-> "ok", walk |-> Subsequence(WalkFiles, I)] :
        I \in SmallSubsets(DOMAIN WalkFiles, MaxWalk)}

----------------------------------------------------------------------------
(* findEntrypoint *)

ImportWord == <<"i","m","p","o","r","t">>
DotPy      == <<".","p","y">>
DotVenv    == <<".","v","e","n","v">>

\* filepath.Ext: the suffix from the last "." of the last element of the path
Ext(path) ==
    LET dots == {i \in 1..Len(path) :
                    path[i] = "." /\ \A j \in i..Len(path) : path[j] # "/"}
    IN  IF dots = {} THEN <<>>
        ELSE SubSeq(path, CHOOSE i \in dots : \A j \in dots : i >= j, Len(path))

\* some line of the file holds both "import" and the dependency name
ImportsDep(f, d) ==
    \E k \in 1..Len(f.lines) : Contains(f.lines[k], ImportWord) /\ Contains(f.lines[k], d)

\* a variant of WalkFrom that keeps the first file found
RECURSIVE WalkFromFirstMatch(_, _, _)
WalkFromFirstMatch(walk, d, entrypoint) ==
    IF walk = <<>> THEN entrypoint
    ELSE LET f == Head(walk) IN
         IF Ext(f.path) = DotPy /\ ~Contains(f.path, DotVenv)
         THEN IF ~f.openable THEN entrypoint
              ELSE WalkFromFirstMatch(Tail(walk), d,
                       IF ImportsDep(f, d) /\ entrypoint = <<>> THEN f.path
                       ELSE entrypoint)
         ELSE WalkFromFirstMatch(Tail(walk), d, entrypoint)

\* the walk function: entrypoint is the file found so far (<<>> is nil); a
\* file that cannot be opened ends the walk
RECURSIVE WalkFrom(_, _, _)
WalkFrom(walk, d, entrypoint) ==
    IF walk = <<>> THEN entrypoint
    ELSE LET f == Head(walk) IN
         IF Ext(f.path) = DotPy /\ ~Contains(f.path, DotVenv)
         THEN IF ~f.openable THEN entrypoint
              ELSE WalkFrom(Tail(walk), d, IF ImportsDep(f, d) THEN f.path ELSE entrypoint)
         ELSE WalkFrom(Tail(walk), d, entrypoint)

\* the name of the file findEntrypoint returns, <<>> when it returns nil
findEntrypoint(d, tree) == WalkFrom(tree.walk, d, <<>>)

----------------------------------------------------------------------------
(* intoSource *)

\* a nil *SourceInfo
NilSrc ==
    [Family |-> "", Port |-> 0, ObjectStorageDesired |-> FALSE, Language |-> "",
     Version |-> <<>>, SkipDeploy |-> FALSE, Builder |-> "",
     pyVersion |-> <<>>, appName |-> "", depStyle |-> "", framework |-> <<>>,
     entrypoint |-> <<>>]

\* no PyCfg was built
NoCfg == [pyVersion |-> <<>>, appName |-> "", deps |-> <<>>, depStyle |-> ""]

PyCfg(pyVersion, appName, deps, depStyle) ==
    [pyVersion |-> pyVersion, appName |-> appName, deps |-> deps, depStyle |-> depStyle]

IsSupported(d) == \E i \in DOMAIN supportedApps : supportedApps[i] = d

SliceContains(l, x) == \E i \in 1..Len(l) : l[i] = x

\* the loop over cfg.deps: the first supported framework becomes app, a second
\* occurrence of a supported framework ends the loop with the warning
RECURSIVE ScanApps(_, _)
ScanApps(deps, app) ==
    IF deps = <<>> THEN [multiple |-> FALSE, app |-> app]
    ELSE IF IsSupported(Head(deps)) /\ app = <<>> THEN ScanApps(Tail(deps), Head(deps))
    ELSE IF IsSupported(Head(deps)) /\ app # <<>> THEN [multiple |-> TRUE, app |-> app]
    ELSE ScanApps(Tail(deps), app)

\* intoSource calls findEntrypoint
NeedsEntrypoint(deps) ==
    LET r == ScanApps(deps, <<>>) IN ~r.multiple /\ r.app = Streamlit

\* the descriptor of a framework: vars and the SourceInfo fields
FrameworkSrc(cfg, family, port, app, entrypoint) ==
    [Family |-> family, Port |-> port,
     ObjectStorageDesired |-> SliceContains(cfg.deps, Boto3) \/ SliceContains(cfg.deps, Boto),
     Language |-> "python", Version |-> <<>>, SkipDeploy |-> FALSE, Builder |-> "",
     pyVersion |-> cfg.pyVersion, appName |-> cfg.appName, depStyle |-> cfg.depStyle,
     framework |-> app, entrypoint |-> entrypoint]

\* a variant of intoSource that builds the Streamlit descriptor without an entrypoint
intoSourceNoEntrypointCheck(cfg, tree) ==
    LET r == ScanApps(cfg.deps, <<>>) IN
    IF r.multiple THEN NilSrc
    ELSE IF r.app = <<>> THEN NilSrc
    ELSE IF r.app = FastAPI THEN FrameworkSrc(cfg, "FastAPI", 8000, FastAPI, <<>>)
    ELSE IF r.app = Flask THEN FrameworkSrc(cfg, "Flask", 8080, Flask, <<>>)
    ELSE FrameworkSrc(cfg, "Streamlit", 8501, Streamlit, findEntrypoint(Streamlit, tree))

\* the *SourceInfo intoSource returns (its error is always nil)
intoSource(cfg, tree) ==
    LET r == ScanApps(cfg.deps, <<>>) IN
    IF r.multiple THEN NilSrc
    ELSE IF r.app = <<>> THEN NilSrc
    ELSE IF r.app = FastAPI THEN FrameworkSrc(cfg, "FastAPI", 8000, FastAPI, <<>>)
    ELSE IF r.app = Flask THEN FrameworkSrc(cfg, "Flask", 8080, Flask, <<>>)
    ELSE IF r.app = Streamlit
         THEN IF findEntrypoint(Streamlit, tree) = <<>> THEN NilSrc
              ELSE FrameworkSrc(cfg, "Streamlit", 8501, Streamlit,
                                findEntrypoint(Streamlit, tree))
    ELSE NilSrc

----------------------------------------------------------------------------
(* extractPythonVersion *)

\* a variant of ResolveFrom that returns the failure of python3 as an error
ResolveFromProbeErrorReturned(lock, p3, p) ==
    IF lock.state = "ok" /\ lock.python_version # <<>>
    THEN [version |-> lock.python_version, pinned |-> TRUE, err |-> "",
          tier |-> "lock", lock |-> lock, py3 |-> p3, py |-> p]
    ELSE IF p3.state = "fail"
    THEN [version |-> <<>>, pinned |-> FALSE, err |-> "exec: python3: not found",
          tier |-> "python3", lock |-> lock, py3 |-> p3, py |-> p]
    ELSE LET match == FindVersion(p3.out)
         IN  IF match # <<>>
             THEN [version |-> match[1], pinned |-> HasNonNumeric(match[1]), err |-> "",
                   tier |-> "python3", lock |-> lock, py3 |-> p3, py |-> p]
             ELSE [version |-> <<>>, pinned |-> FALSE,
                   err |-> "Could not find Python version",
                   tier |-> "python3", lock |-> lock, py3 |-> p3, py |-> p]

\* the result of extractPythonVersion when Pipfile.lock reads as lock and the
\* interpreters answer p3 and p; tier names where the version came from
ResolveFrom(lock, p3, p) ==
    IF lock.state = "ok" /\ lock.python_version # <<>>
    THEN [version |-> lock.python_version, pinned |-> TRUE, err |-> "",
          tier |-> "lock", lock |-> lock, py3 |-> p3, py |-> p]
    ELSE LET text == IF p3.state = "ok" THEN p3.out
                     ELSE IF p.state = "ok" THEN p.out
                     ELSE FallbackBanner
             tier == IF p3.state = "ok" THEN "python3"
                     ELSE IF p.state = "ok" THEN "python"
                     ELSE "fallback"
             match == FindVersion(text)
         IN  IF match # <<>>
             THEN [version |-> match[1], pinned |-> HasNonNumeric(match[1]), err |-> "",
                   tier |-> tier, lock |-> lock, py3 |-> p3, py |-> p]
             ELSE [version |-> <<>>, pinned |-> FALSE,
                   err |-> "Could not find Python version",
                   tier |-> tier, lock |-> lock, py3 |-> p3, py |-> p]

\* the calls of extractPythonVersion the tree and the interpreters allow, given
\* what d and pr already hold of them: Pipfile.lock is read when it exists,
\* python3 is run only if the lock file gave no version, python only if
\* python3 failed
extractPythonVersion(d, pr) ==
    LET locks == IF "Pipfile.lock" \in files THEN Pick(d.lock, LockDocs) ELSE {Unknown}
        fromLock(l) == l.state = "ok" /\ l.python_version # <<>>
    IN  {ResolveFrom(l, p3, p) :
            <<l, p3, p>> \in
              {t \in locks \X (PickProbe(pr.py3, ProbeOutcomes) \cup {pr.py3})
                           \X (PickProbe(pr.py, ProbeOutcomes) \cup {pr.py}) :
                  /\ fromLock(t[1]) => t[2] = pr.py3 /\ t[3] = pr.py
                  /\ ~fromLock(t[1]) => t[2] # NotRun
                  /\ (~fromLock(t[1]) /\ t[2].state = "ok") => t[3] = pr.py
                  /\ (~fromLock(t[1]) /\ t[2].state = "fail") => t[3] # NotRun}}

----------------------------------------------------------------------------
(* The detectors.  Each is the set of the runs the tree allows: a run gives *)
(* the SourceInfo and error returned, or a panic, the PyCfg built, the     *)
(* manifest files read, the calls of extractPythonVersion made, and what    *)
(* is known of the tree and of the interpreters afterwards.                 *)

\* checksPass(sourceDir, fileExists(names...)): one of the names is a file
fileExists(names) == names \cap files # {}

Outcome(s, e, cfg, rd, rs, d, pr) ==
    [src |-> s, err |-> e, panic |-> FALSE, cfg |-> cfg, reads |-> rd,
     resolved |-> rs, docs |-> d, probes |-> pr]

Panicked(rd, d, pr) ==
    [src |-> NilSrc, err |-> "", panic |-> TRUE, cfg |-> NoCfg, reads |-> rd,
     resolved |-> <<>>, docs |-> d, probes |-> pr]

ResolverRecord(r) == [version |-> r.version, pinned |-> r.pinned, err |-> r.err, tier |-> r.tier]

LockReads(r) == IF r.lock = Unknown THEN <<>> ELSE <<"Pipfile.lock">>

AfterResolver(d, r) == [d EXCEPT !.lock = r.lock]

ProbesAfter(r) == [py3 |-> r.py3, py |-> r.py]

\* return intoSource(cfg): the tree is walked when the framework is Streamlit
Classified(cfg, rd, rs, d, pr) ==
    {Outcome(intoSource(cfg, t), "", cfg, rd, rs, [d EXCEPT !.tree = t], pr) :
        t \in IF NeedsEntrypoint(cfg.deps) THEN Pick(d.tree, Trees) ELSE {d.tree}}

\* the rest of a detector from its call of extractPythonVersion on
VersionedThenClassified(appName, deps, depStyle, rd, d, pr) ==
    UNION {IF r.err # ""
           THEN {Outcome(NilSrc, r.err, NoCfg, rd \o LockReads(r), <<ResolverRecord(r)>>,
                         AfterResolver(d, r), ProbesAfter(r))}
           ELSE Classified(PyCfg(r.version, appName, deps, depStyle),
                           rd \o LockReads(r), <<ResolverRecord(r)>>,
                           AfterResolver(d, r), ProbesAfter(r)) :
           r \in extractPythonVersion(d, pr)}

\* configPoetry once pyproject.toml reads as doc
PoetryFrom(doc) ==
    LET d == [docs EXCEPT !.pyproject = doc] IN
    IF doc.state = "unreadable"
    THEN {Outcome(NilSrc, "Error reading pyproject.toml", NoCfg, <<>>, <<>>, d, probes)}
    ELSE IF doc.state = "badtoml"
    THEN {Outcome(NilSrc, "Error parsing pyproject.toml", NoCfg,
                  <<"pyproject.toml">>, <<>>, d, probes)}
    ELSE IF doc.poetry.isNil
    THEN {Outcome(NilSrc, "No dependencies found in pyproject.toml", NoCfg,
                  <<"pyproject.toml">>, <<>>, d, probes)}
    ELSE IF doc.poetry.python.kind # "string"
    THEN {Panicked(<<"pyproject.toml">>, d, probes)}
    ELSE UNION {Classified(PyCfg(parsePyDep(TrimPrefix(doc.poetry.python.s, <<"^">>)),
                                 "tool.poetry.name",
                                 [i \in 1..Len(o) |-> parsePyDep(o[i])], "poetry"),
                           <<"pyproject.toml">>, <<>>, d, probes) :
                o \in Orders(doc.poetry.keys \cup {PythonKey})}

configPoetry ==
    IF ~fileExists({"poetry.lock"}) \/ ~fileExists({"pyproject.toml"})
    THEN {Outcome(NilSrc, "", NoCfg, <<>>, <<>>, docs, probes)}
    ELSE UNION {PoetryFrom(doc) : doc \in PoetryViews(docs.pyproject)}

\* configPyProject once pyproject.toml reads as doc
PyProjectFrom(doc) ==
    LET d == [docs EXCEPT !.pyproject = doc] IN
    IF doc.state = "unreadable"
    THEN {Outcome(NilSrc, "Error reading pyproject.toml", NoCfg, <<>>, <<>>, d, probes)}
    ELSE IF doc.state = "badtoml"
    THEN {Outcome(NilSrc, "Error parsing pyproject.toml", NoCfg,
                  <<"pyproject.toml">>, <<>>, d, probes)}
    ELSE IF doc.project.isNil
    THEN {Outcome(NilSrc, "No dependencies found in pyproject.toml", NoCfg,
                  <<"pyproject.toml">>, <<>>, d, probes)}
    ELSE LET depList == [i \in 1..Len(doc.project.list) |->
                            parsePyDep(parsePyDep(doc.project.list[i]))]
         IN  IF doc.project.requires = <<>>
             THEN VersionedThenClassified("project.name", depList, "pep621",
                                          <<"pyproject.toml">>, d, probes)
             ELSE Classified(PyCfg(TrimNonVersion(doc.project.requires), "project.name",
                                   depList, "pep621"),
                             <<"pyproject.toml">>, <<>>, d, probes)

configPyProject ==
    IF ~fileExists({"pyproject.toml"})
    THEN {Outcome(NilSrc, "", NoCfg, <<>>, <<>>, docs, probes)}
    ELSE UNION {PyProjectFrom(doc) : doc \in ProjectViews(docs.pyproject)}

\* configPipfile once Pipfile reads as doc
PipfileFrom(doc) ==
    LET d == [docs EXCEPT !.pipfile = doc] IN
    IF doc.state = "unreadable"
    THEN {Outcome(NilSrc, "Error reading Pipfile", NoCfg, <<>>, <<>>, d, probes)}
    ELSE IF doc.state = "badtoml"
    THEN {Outcome(NilSrc, "Error parsing Pipfile", NoCfg, <<"Pipfile">>, <<>>, d, probes)}
    ELSE IF doc.isNil
    THEN {Outcome(NilSrc, "No packages found in Pipfile", NoCfg, <<"Pipfile">>, <<>>, d, probes)}
    ELSE UNION {VersionedThenClassified("filepath.Base(sourceDir)",
                                        [i \in 1..Len(o) |-> parsePyDep(o[i])], "pipenv",
                                        <<"Pipfile">>, d, probes) :
                o \in Orders(doc.keys)}

configPipfile ==
    IF ~fileExists({"Pipfile", "Pipfile.lock"})
    THEN {Outcome(NilSrc, "", NoCfg, <<>>, <<>>, docs, probes)}
    ELSE IF "Pipfile" \notin files
    THEN {Outcome(NilSrc, "Error reading Pipfile", NoCfg, <<>>, <<>>, docs, probes)}
    ELSE UNION {PipfileFrom(doc) : doc \in Pick(docs.pipfile, PipfileDocs)}

\* readLines: nil when the file has no line
readLines(doc) == doc.lines

\* configRequirements once the file called name reads as doc
RequirementsFrom(name, doc) ==
    LET d == IF name = "requirements.txt" THEN [docs EXCEPT !.reqtxt = doc]
             ELSE [docs EXCEPT !.reqin = doc]
    IN  IF doc.state = "unreadable"
        THEN {Outcome(NilSrc, "open " \o name, NoCfg, <<>>, <<>>, d, probes)}
        ELSE IF Len(readLines(doc)) = 0
        THEN {Outcome(NilSrc, "No dependencies found in requirements file", NoCfg,
                      <<name>>, <<>>, d, probes)}
        ELSE VersionedThenClassified("filepath.Base(sourceDir)",
                                     [i \in 1..Len(readLines(doc)) |->
                                         parsePyDep(readLines(doc)[i])],
                                     "pip", <<name>>, d, probes)

configRequirements ==
    IF fileExists({"requirements.txt"})
    THEN UNION {RequirementsFrom("requirements.txt", doc) :
                    doc \in Pick(docs.reqtxt, RequirementDocs)}
    ELSE IF fileExists({"requirements.in"})
    THEN UNION {RequirementsFrom("requirements.in", doc) :
                    doc \in Pick(docs.reqin, RequirementDocs)}
    ELSE {Outcome(NilSrc, "", NoCfg, <<>>, <<>>, docs, probes)}

MarkerFiles == {"requirements.txt", "environment.yml", "poetry.lock", "Pipfile",
                "setup.py", "setup.cfg"}

\* a variant of GenericSrc that leaves Runtime.Version unset
GenericSrcNoVersion(pythonVersion) ==
    [Family |-> "Python", Port |-> 8080, ObjectStorageDesired |-> FALSE,
     Language |-> "python", Version |-> <<>>, SkipDeploy |-> TRUE,
     Builder |-> "paketobuildpacks/builder:base",
     pyVersion |-> <<>>, appName |-> "", depStyle |-> "", framework |-> <<>>,
     entrypoint |-> <<>>]

\* the generic SourceInfo of configurePython
GenericSrc(pythonVersion) ==
    [Family |-> "Python", Port |-> 8080, ObjectStorageDesired |-> FALSE,
     Language |-> "python", Version |-> pythonVersion, SkipDeploy |-> TRUE,
     Builder |-> "paketobuildpacks/builder:base",
     pyVersion |-> <<>>, appName |-> "", depStyle |-> "", framework |-> <<>>,
     entrypoint |-> <<>>]

\* the statements of configurePython after the four detectors
genericFallback ==
    IF ~fileExists(MarkerFiles)
    THEN {Outcome(NilSrc, "", NoCfg, <<>>, <<>>, docs, probes)}
    ELSE {Outcome(IF r.err # "" THEN NilSrc ELSE GenericSrc(r.version), r.err, NoCfg,
                  LockReads(r), <<ResolverRecord(r)>>, AfterResolver(docs, r), ProbesAfter(r)) :
             r \in extractPythonVersion(docs, probes)}

----------------------------------------------------------------------------
(* configurePython *)

\* the steps of configurePython in the order it takes them
Steps == <<"configPoetry", "configPyProject", "configPipfile", "configRequirements",
           "fallback">>

StepIndex(step) == CHOOSE i \in DOMAIN Steps : Steps[i] = step

\* a variant of ReturnsNow that falls through to the next detector on an error
ReturnsOnSrcOnly(o) == o.src # NilSrc

\* a variant of ReturnsNow that goes on to the next detector with a descriptor
ReturnsOnErrOnly(o) == o.err # ""

\* if src != nil || err != nil { return src, err }
ReturnsNow(o) == o.src # NilSrc \/ o.err # ""

\* the run o of the step at pc, then the test configurePython makes of its result
Apply(o) ==
    /\ docs' = o.docs
    /\ probes' = o.probes
    /\ reads' = reads \o [i \in 1..Len(o.reads) |-> [by |-> pc, file |-> o.reads[i]]]
    /\ resolved' = resolved \o
           [i \in 1..Len(o.resolved) |->
               [by |-> pc, version |-> o.resolved[i].version,
                pinned |-> o.resolved[i].pinned, err |-> o.resolved[i].err,
                tier |-> o.resolved[i].tier]]
    /\ log' = Append(log, [det |-> pc, cfg |-> o.cfg, src |-> o.src, err |-> o.err,
                           panic |-> o.panic])
    /\ IF o.panic
       THEN pc' = "panic" /\ UNCHANGED <<src, err>>
       ELSE IF ReturnsNow(o) \/ pc = "fallback"
       THEN pc' = "done" /\ src' = o.src /\ err' = o.err
       ELSE pc' = Steps[StepIndex(pc) + 1] /\ UNCHANGED <<src, err>>
    /\ UNCHANGED <<files, dep, out>>

ConfigPoetry == pc = "configPoetry" /\ \E o \in configPoetry : Apply(o)

ConfigPyProject == pc = "configPyProject" /\ \E o \in configPyProject : Apply(o)

ConfigPipfile == pc = "configPipfile" /\ \E o \in configPipfile : Apply(o)

ConfigRequirements == pc = "configRequirements" /\ \E o \in configRequirements : Apply(o)

GenericFallback == pc = "fallback" /\ \E o \in genericFallback : Apply(o)

Init ==
    /\ files \in SmallSubsets(ScannedFiles, MaxFiles)
    /\ docs = [pyproject |-> Unknown, pipfile |-> Unknown, lock |-> Unknown,
               reqtxt |-> Unknown, reqin |-> Unknown, tree |-> Unknown]
    /\ probes = [py3 |-> NotRun, py |-> NotRun]
    /\ pc = Steps[1]
    /\ src = NilSrc
    /\ err = ""
    /\ log = <<>>
    /\ reads = <<>>
    /\ resolved = <<>>
    /\ dep = <<>>
    /\ out = <<>>

Next ==
    \/ ConfigPoetry
    \/ ConfigPyProject
    \/ ConfigPipfile
    \/ ConfigRequirements
    \/ GenericFallback

Spec == Init /\ [][Next]_vars

----------------------------------------------------------------------------
(* Claims about configurePython and the detectors, under Spec *)

Done == pc = "done"

\* the record of the detector det in the log, when it ran
Ran(det) == \E i \in DOMAIN log : log[i].det = det

Entry(det) == log[CHOOSE i \in DOMAIN log : log[i].det = det]

\* the detector ended absent: no descriptor, no error, no panic
EndedAbsent(e) == e.src = NilSrc /\ e.err = "" /\ ~e.panic

\* the occurrences of supported frameworks in a dependency list
Occurrences(deps) == {i \in DOMAIN deps : IsSupported(deps[i])}

\* the distinct supported frameworks of a dependency list
DistinctTags(deps) == {deps[i] : i \in Occurrences(deps)}

\* poetry.lock and pyproject.toml exist and pyproject.toml holds a
\* tool.poetry.dependencies table with a string "python" entry
PoetryValid ==
    /\ {"poetry.lock", "pyproject.toml"} \subseteq files
    /\ docs.pyproject.state = "ok"
    /\ docs.pyproject.poetry # Unknown
    /\ ~docs.pyproject.poetry.isNil
    /\ docs.pyproject.poetry.python.kind = "string"

\* a requirements file exists and, as far as it was read, holds lines
FlatValid ==
    LET d == IF "requirements.txt" \in files THEN docs.reqtxt ELSE docs.reqin IN
    /\ fileExists({"requirements.txt", "requirements.in"})
    /\ d = Unknown \/ (d.state = "ok" /\ Len(d.lines) > 0)

\* the canonical names of the keys of tool.poetry.dependencies hold exactly one
\* supported framework, and when it is Streamlit the tree has an entrypoint
PoetryOneFramework ==
    LET hits == {k \in docs.pyproject.poetry.keys : IsSupported(parsePyDep(k))} IN
    /\ Cardinality(hits) = 1
    /\ \A k \in hits :
          parsePyDep(k) = Streamlit =>
              /\ docs.tree # Unknown
              /\ findEntrypoint(Streamlit, docs.tree) # <<>>

\* a requirements file exists, was read and holds a line that is not blank
FlatReadValid ==
    LET d == IF "requirements.txt" \in files THEN docs.reqtxt ELSE docs.reqin IN
    /\ fileExists({"requirements.txt", "requirements.in"})
    /\ d # Unknown /\ d.state = "ok"
    /\ \E i \in DOMAIN d.lines : d.lines[i] # BlankLine

\* C1 as claimed: with a valid lockfile-based manifest and a valid flat
\* requirements file, configurePython returns the result built from the
\* lockfile-based manifest and never one built from the flat file.
C1_Original ==
    (Done /\ PoetryValid /\ FlatReadValid) =>
        (src.depStyle = "poetry" /\ src.depStyle # "pip")

\* C1 as amended: with a valid lockfile-based manifest whose dependencies
\* hold exactly one supported framework (with an entrypoint when it is
\* Streamlit) and a valid flat requirements file, configurePython returns
\* the descriptor built from the lockfile-based manifest, without error.
C1_LockfileFirst ==
    (Done /\ PoetryValid /\ FlatValid /\ PoetryOneFramework) =>
        /\ err = ""
        /\ src # NilSrc
        /\ src.depStyle = "poetry"
        /\ src = log[1].src

\* both manifests exist and the Flask descriptor of the poetry manifest is returned
C1_Witness ==
    /\ Done /\ PoetryValid /\ FlatValid /\ PoetryOneFramework
    /\ "requirements.txt" \in files
    /\ src.Family = "Flask" /\ src.depStyle = "poetry"

\* C2: when a detector returns an error, configurePython returns that error
\* and no descriptor, and no later detector and no fallback step runs.
C2_ErrorsAbort ==
    \A i \in DOMAIN log :
        log[i].err # "" =>
            /\ i = Len(log)
            /\ pc = "done"
            /\ err = log[i].err
            /\ src = NilSrc

\* the third detector failed after two absent ones
C2_Witness ==
    /\ Len(log) = 3
    /\ log[3].det = "configPipfile" /\ log[3].err = "No packages found in Pipfile"
    /\ Done /\ err = "No packages found in Pipfile"

\* the manifest convention a file belongs to
Convention(file) ==
    IF file = "pyproject.toml" THEN "pyproject"
    ELSE IF file \in {"Pipfile", "Pipfile.lock"} THEN "pipenv"
    ELSE "requirements"

\* C3 as claimed: in one invocation the files whose content is read all
\* belong to one manifest convention.
C3_Original ==
    \A i, j \in DOMAIN reads : Convention(reads[i].file) = Convention(reads[j].file)

\* C3 as amended: a step reads a manifest file only if every detector
\* before it ended with no descriptor and no error, so nothing is read after
\* a descriptor or an error; detectors that read their manifest and classify
\* nothing are followed by reads of other conventions' files.
C3_ReadsOnlyAfterAbsent ==
    \A i \in DOMAIN reads : \A k \in DOMAIN log :
        StepIndex(log[k].det) < StepIndex(reads[i].by) => EndedAbsent(log[k])

\* pyproject.toml was read and classified nothing, then requirements.txt was read
C3_Witness ==
    /\ \E i \in DOMAIN reads : reads[i].file = "pyproject.toml"
    /\ \E i \in DOMAIN reads : reads[i].file = "requirements.txt"
    /\ Ran("configPyProject") /\ EndedAbsent(Entry("configPyProject"))

\* C4: the classification of a StackConfig depends only on the number of
\* distinct supported frameworks among its dependencies: none gives no
\* descriptor and no error, exactly one gives that framework's descriptor
\* (fastapi: FastAPI, port 8000; flask: Flask, port 8080), two or more give
\* no descriptor and no error.
C4_ClassifiedByDistinctTags ==
    \A i \in DOMAIN log :
        log[i].cfg # NoCfg =>
            LET tags == DistinctTags(log[i].cfg.deps) IN
            /\ log[i].err = ""
            /\ tags = {} => log[i].src = NilSrc
            /\ tags = {FastAPI} => log[i].src.Family = "FastAPI" /\ log[i].src.Port = 8000
            /\ tags = {Flask} => log[i].src.Family = "Flask" /\ log[i].src.Port = 8080
            /\ Cardinality(tags) >= 2 => log[i].src = NilSrc

\* a StackConfig built by some detector whose only framework is Streamlit and
\* for which the tree walk finds no entrypoint
StreamlitWithoutEntrypoint(e) ==
    /\ e.cfg # NoCfg
    /\ DistinctTags(e.cfg.deps) = {Streamlit}
    /\ Cardinality(Occurrences(e.cfg.deps)) = 1
    /\ docs.tree # Unknown
    /\ findEntrypoint(Streamlit, docs.tree) = <<>>

\* C5 as claimed: when the single framework is Streamlit and no entrypoint
\* is found, configurePython returns no descriptor and no error.
C5_Original ==
    (Done /\ \E i \in DOMAIN log : StreamlitWithoutEntrypoint(log[i])) =>
        (src = NilSrc /\ err = "")

\* C5 as amended: when the single framework of a detector's StackConfig is
\* Streamlit and no entrypoint is found, that detector returns no descriptor
\* and no error, and configurePython never returns a Streamlit descriptor;
\* it goes on to the lower-priority detectors and the generic fallback.
C5_StreamlitDetectorAbsent ==
    \A i \in DOMAIN log :
        StreamlitWithoutEntrypoint(log[i]) =>
            /\ EndedAbsent(log[i])
            /\ src.Family # "Streamlit"
            /\ (i < Len(log) => log[i + 1].det = Steps[StepIndex(log[i].det) + 1])

\* a Streamlit project without entrypoint ended with the generic descriptor
C5_Witness ==
    /\ Done /\ src.Family = "Python"
    /\ \E i \in DOMAIN log : StreamlitWithoutEntrypoint(log[i])

\* the four detectors ran and each ended absent
AllAbsent ==
    /\ Len(log) >= 4
    /\ \A i \in 1..4 : EndedAbsent(log[i])

\* the calls of extractPythonVersion made by the fallback step
FallbackResolved == SelectSeq(resolved, LAMBDA r : r.by = "fallback")

\* C6 as claimed: when the four detectors are absent, configurePython
\* returns nothing and no error if no marker file exists, without calling
\* the resolver, and otherwise the generic descriptor with the resolver's
\* version.
C6_Original ==
    (Done /\ AllAbsent) =>
        IF ~fileExists(MarkerFiles)
        THEN src = NilSrc /\ err = "" /\ FallbackResolved = <<>>
        ELSE /\ Len(FallbackResolved) = 1
             /\ err = ""
             /\ src.Family = "Python" /\ src.Port = 8080 /\ src.SkipDeploy
             /\ src.framework = <<>>
             /\ src.Version = FallbackResolved[1].version

\* C6 as amended: as claimed, except that with a marker file the generic
\* descriptor is returned only when the resolver succeeds; when the resolver
\* fails, its error is returned and no descriptor.
C6_GenericFallback ==
    (Done /\ AllAbsent) =>
        IF ~fileExists(MarkerFiles)
        THEN src = NilSrc /\ err = "" /\ FallbackResolved = <<>>
        ELSE /\ Len(FallbackResolved) = 1
             /\ IF FallbackResolved[1].err = ""
                THEN /\ err = ""
                     /\ src.Family = "Python" /\ src.Port = 8080 /\ src.SkipDeploy
                     /\ src.framework = <<>>
                     /\ src.Language = "python"
                     /\ FallbackResolved[1].version # <<>>
                     /\ src.Version = FallbackResolved[1].version
                ELSE src = NilSrc /\ err = FallbackResolved[1].err

\* only setup.py exists and the generic descriptor carries the probed version
C6_Witness ==
    /\ Done /\ AllAbsent /\ files = {"setup.py"}
    /\ src.Family = "Python" /\ src.Version = <<"3",".","1","1",".","2">>

\* every line of the sequence is blank
AllBlank(lines) == \A i \in DOMAIN lines : lines[i] = BlankLine

\* C7: a manifest that exists but yields no dependency token is a hard
\* error: a dependencies list without entries for configPyProject, a
\* requirements file without a non-empty line for configRequirements.
C7_NoTokensIsError ==
    /\ (Ran("configPyProject") /\ docs.pyproject.state = "ok"
          /\ docs.pyproject.project # Unknown /\ ~docs.pyproject.project.isNil
          /\ docs.pyproject.project.list = <<>>)
        => Entry("configPyProject").err # ""
    /\ (Ran("configRequirements") /\ "requirements.txt" \in files
          /\ docs.reqtxt # Unknown /\ docs.reqtxt.state = "ok"
          /\ AllBlank(docs.reqtxt.lines))
        => Entry("configRequirements").err # ""

\* the text of the lock file declares an interpreter version
LockDeclares == docs.lock # Unknown /\ docs.lock.state = "ok" /\ docs.lock.python_version # <<>>

Str_3112   == <<"3",".","1","1",".","2">>
Str_3120b4 == <<"3",".","1","2",".","0","b","4">>
Str_3120   == <<"3",".","1","2",".","0">>

\* C11: whenever extractPythonVersion returns a version without error, from
\* any tier including the lock file's, its pinned flag is true if and only if
\* the version holds a character other than a digit or "."; the banner
\* "Python 3.11.2\n" gives ("3.11.2", false), "Python 3.12.0b4" gives
\* ("3.12.0b4", true).
C11_PinnedIffNonNumeric ==
    \A i \in DOMAIN resolved :
        resolved[i].err = "" =>
            /\ resolved[i].pinned <=> HasNonNumeric(resolved[i].version)
            /\ (resolved[i].tier = "python3" /\ probes.py3.out = Banner3112)
                  => (resolved[i].version = Str_3112 /\ ~resolved[i].pinned)
            /\ (resolved[i].tier = "python3" /\ probes.py3.out = Banner3120b4)
                  => (resolved[i].version = Str_3120b4 /\ resolved[i].pinned)

\* the .py file outside .venv has a line holding "import" and the name d
Qualifies(f, d) ==
    /\ Ext(f.path) = DotPy
    /\ ~Contains(f.path, DotVenv)
    /\ f.openable
    /\ ImportsDep(f, d)

\* the files the walk visits: all of them up to the first .py file outside
\* .venv that cannot be opened
Visited(walk) ==
    LET stops == {k \in DOMAIN walk : /\ Ext(walk[k].path) = DotPy
                                      /\ ~Contains(walk[k].path, DotVenv)
                                      /\ ~walk[k].openable}
    IN  IF stops = {} THEN walk
        ELSE SubSeq(walk, 1, CHOOSE k \in stops : \A j \in stops : k <= j)

\* the positions of the qualifying files among the visited ones
QualifyingVisited(walk, d) ==
    {k \in DOMAIN Visited(walk) : Qualifies(Visited(walk)[k], d)}

\* a detector called findEntrypoint: its StackConfig holds Streamlit alone
CalledFindEntrypoint(e) == e.cfg # NoCfg /\ NeedsEntrypoint(e.cfg.deps)

\* C12: findEntrypoint returns the last visited .py file outside .venv that
\* has a line holding both "import" and the dependency name (with two
\* qualifying files, the one visited last), and nothing if and only if no
\* visited file qualifies.
C12_LastMatchWins ==
    \A i \in DOMAIN log :
        CalledFindEntrypoint(log[i]) =>
            /\ docs.tree # Unknown
            /\ LET v == Visited(docs.tree.walk)
                   Q == QualifyingVisited(docs.tree.walk, Streamlit)
               IN  /\ Q = {} <=> log[i].src.entrypoint = <<>>
                   /\ Q = {} <=> log[i].src = NilSrc
                   /\ Q # {} =>
                        log[i].src.entrypoint =
                            v[CHOOSE k \in Q : \A j \in Q : k >= j].path

\* two files of the walk qualify and the one visited last is the entrypoint
C12_Witness ==
    \E i \in DOMAIN log :
        /\ CalledFindEntrypoint(log[i])
        /\ docs.tree # Unknown
        /\ Cardinality(QualifyingVisited(docs.tree.walk, Streamlit)) = 2
        /\ log[i].src.entrypoint = <<"p","a","g","e","s","/","m","a","i","n",".","p","y">>
        /\ docs.tree.walk[1].path = <<"a","p","p",".","p","y">>

\* what a call of extractPythonVersion returns when the tier it used gave text
FromText(r, text) ==
    IF FindVersion(text) # <<>>
    THEN r.err = "" /\ r.version = FindVersion(text)[1]
    ELSE r.err = "Could not find Python version" /\ r.version = <<>>

\* C13: the tiers of extractPythonVersion are tried in order, each only if
\* the one before gave nothing: python3 runs only when the lock file declares
\* no version, python only when python3 failed, the fallback banner is used
\* only when both failed; a failed probe is never returned as an error, and
\* the error is returned only when the text obtained does not match the
\* pattern.
C13_TiersInOrder ==
    /\ probes.py3 # NotRun => ~LockDeclares
    /\ probes.py # NotRun => (probes.py3 # NotRun /\ probes.py3.state = "fail")
    /\ \A i \in DOMAIN resolved :
         LET r == resolved[i] IN
         /\ r.tier = "lock" <=> LockDeclares
         /\ r.tier = "lock" => (r.err = "" /\ r.version = docs.lock.python_version)
         /\ r.tier = "python3" <=> (~LockDeclares /\ probes.py3.state = "ok")
         /\ r.tier = "python3" => FromText(r, probes.py3.out)
         /\ r.tier = "python" <=>
               (~LockDeclares /\ probes.py3.state = "fail" /\ probes.py.state = "ok")
         /\ r.tier = "python" => FromText(r, probes.py.out)
         /\ r.tier = "fallback" <=>
               (~LockDeclares /\ probes.py3.state = "fail" /\ probes.py.state = "fail")
         /\ r.tier = "fallback" => (r.err = "" /\ r.version = Str_3120)
         /\ r.err # "" =>
               /\ r.err = "Could not find Python version"
               /\ r.tier \in {"python3", "python"}
               /\ FindVersion(IF r.tier = "python3" THEN probes.py3.out
                              ELSE probes.py.out) = <<>>

\* python3 failed, python answered with a banner, and its version was returned
C13_Witness ==
    /\ probes.py3 # NotRun /\ probes.py3.state = "fail"
    /\ probes.py # NotRun /\ probes.py.state = "ok" /\ probes.py.out = Banner3112
    /\ \E i \in DOMAIN resolved :
         resolved[i].tier = "python" /\ resolved[i].version = Str_3112

\* both probes failed and the fallback banner gave the version, without error
C13_FallbackWitness ==
    /\ probes.py3 # NotRun /\ probes.py3.state = "fail"
    /\ probes.py # NotRun /\ probes.py.state = "fail"
    /\ Done /\ err = "" /\ src.Version = Str_3120

\* C14: configPipfile applies only when both Pipfile and Pipfile.lock exist:
\* when either is missing it ends absent (no descriptor, no error), never
\* with a hard error.
C14_PipfileNeedsBoth ==
    (Ran("configPipfile") /\ ~({"Pipfile", "Pipfile.lock"} \subseteq files)) =>
        /\ Entry("configPipfile").err = ""
        /\ EndedAbsent(Entry("configPipfile"))
        /\ \A i \in DOMAIN reads : reads[i].by # "configPipfile"

\* C15: every descriptor configurePython returns, of a framework or the
\* generic one, carries language "python" and the version resolved for the
\* tree: the pyVersion template variable for a framework descriptor.
C15_RuntimeCarriesVersion ==
    (Done /\ src # NilSrc) =>
        /\ src.Language = "python"
        /\ src.Version # <<>>
        /\ src.framework # <<>> => src.Version = src.pyVersion
        /\ src.framework = <<>> => src.Version = FallbackResolved[1].version

\* C16: for every pyproject.toml with a tool.poetry.dependencies table,
\* with or without a string "python" entry, configPoetry ends absent, with
\* a descriptor or with a returned error, and never without returning.
C16_PoetryAlwaysReturns ==
    /\ pc # "panic"
    /\ \A i \in DOMAIN log :
         (log[i].det = "configPoetry" /\ docs.pyproject.state = "ok"
            /\ docs.pyproject.poetry # Unknown /\ ~docs.pyproject.poetry.isNil)
         => /\ ~log[i].panic
            /\ \/ EndedAbsent(log[i])
               \/ (log[i].src # NilSrc /\ log[i].err = "")
               \/ (log[i].src = NilSrc /\ log[i].err # "")

----------------------------------------------------------------------------
(* The canonicalizer applied to enumerated tokens *)

TokenAlphabet == {"a", "B", ";", " ", "[", "=", ">", "<", "~"}

\* the examples of the comment of parsePyDep
ExFastapi == <<"f","a","s","t","a","p","i",">","=","0",".","1",".","0">>
ExFlask   == <<"f","l","a","s","k">>
ExPytest  == <<"p","y","t","e","s","t"," ","<"," ","5",".","0",".","0">>
ExNumpy   == <<"n","u","m","p","y","~","=","1",".","1","9",".","2">>
ExDjango  == <<"d","j","a","n","g","o",">","2",".","1",";"," ","o","s","_",
               "n","a","m","e"," ","!","="," ","'","n","t","'">>
ExUvicorn == <<"u","v","i","c","o","r","n","[","s","t","a","n","d","a","r","d","]">>
ExNotEq   == <<"d","j","a","n","g","o","!","=","2",".","0">>

ExampleTokens == {ExFastapi, ExFlask, ExPytest, ExNumpy, ExDjango, ExUvicorn, ExNotEq}

Tokens == UNION {[1..n -> TokenAlphabet] : n \in 0..MaxTokenLen} \cup ExampleTokens

InitDep ==
    /\ dep \in Tokens
    /\ out = <<>>
    /\ files = {}
    /\ docs = [pyproject |-> Unknown, pipfile |-> Unknown, lock |-> Unknown,
               reqtxt |-> Unknown, reqin |-> Unknown, tree |-> Unknown]
    /\ probes = [py3 |-> NotRun, py |-> NotRun]
    /\ pc = "parsePyDep"
    /\ src = NilSrc
    /\ err = ""
    /\ log = <<>>
    /\ reads = <<>>
    /\ resolved = <<>>

\* out = <<parsePyDep(dep)>>
Canonicalize ==
    /\ Len(out) = 0
    /\ out' = <<parsePyDep(dep)>>
    /\ UNCHANGED <<dep, scanVars>>

\* the canonical name canonicalized again
Recanonicalize ==
    /\ Len(out) = 1
    /\ out' = Append(out, parsePyDep(out[1]))
    /\ UNCHANGED <<dep, scanVars>>

NextDep == Canonicalize \/ Recanonicalize

SpecDep == InitDep /\ [][NextDep]_vars

----------------------------------------------------------------------------
(* Claims about the canonicalizer, under SpecDep *)

Str_numpy   == <<"n","u","m","p","y">>
Str_django  == <<"d","j","a","n","g","o">>
Str_pytest  == <<"p","y","t","e","s","t">>

\* the characters the canonical name is said not to carry before further content
ConstraintChars == {";", "[", "=", ">", "<", "~"}

\* s up to the first occurrence of d, all of s when d does not occur
RECURSIVE PrefixBefore(_, _)
PrefixBefore(s, d) ==
    IF s = <<>> \/ HasPrefix(s, d) THEN <<>>
    ELSE <<Head(s)>> \o PrefixBefore(Tail(s), d)

\* the truncations at each delimiter of ds in turn
RECURSIVE TruncateAll(_, _)
TruncateAll(s, ds) ==
    IF ds = <<>> THEN s ELSE TruncateAll(PrefixBefore(s, Head(ds)), Tail(ds))

\* C8: canonicalization is idempotent: canonicalizing a canonical name
\* returns it unchanged.
C8_Idempotent == Len(out) = 2 => out[2] = out[1]

\* a token that canonicalization shortened to a non-empty name, canonicalized twice
C8_Witness ==
    /\ Len(out) = 2
    /\ out[1] # dep
    /\ out[1] # <<>>
    /\ out[2] = out[1]

\* C9: the canonical name of every token holds none of ; [ = > < ~ followed
\* by further content.
C9_NoConstraintLeft ==
    Len(out) >= 1 =>
        \A i \in 1..(Len(out[1]) - 1) : out[1][i] \notin ConstraintChars

\* C10: the canonical name is the lowercased token truncated at the first
\* ";", then " ", "[", "==", ">", "<" and "~=", in that order, and the four
\* examples give fastapi, numpy, django and pytest.
C10_TruncationSequence ==
    Len(out) >= 1 =>
        /\ out[1] = TruncateAll(ToLower(dep), Delimiters)
        /\ dep = ExFastapi => out[1] = FastAPI
        /\ dep = ExNumpy => out[1] = Str_numpy
        /\ dep = ExDjango => out[1] = Str_django
        /\ dep = ExPytest => out[1] = Str_pytest

\* the example with a marker, a space and an operator, canonicalized
C10_Witness == dep = ExDjango /\ Len(out) >= 1 /\ out[1] = Str_django

=============================================================================
